---- MODULE Spec2Model ----
(***************************************************************************)
(* Median filter of Diego-Paris/hpc_final: the sequential sweep            *)
(* (medianFilterSequential) and the chunk-parallel sweep                   *)
(* (medianFilterParallel) of src/main.go, one call per behaviour.          *)
(* The caller goroutine and every worker goroutine take one step at a      *)
(* time, so every interleaving of the workers is a behaviour.              *)
(* BenchSpec is the loop of main (src/unnamed/part_001) making its four    *)
(* filter calls per image; UnitSpec calls getNeighborhood and              *)
(* medianFilterSequential on their own.                                    *)
(***************************************************************************)
EXTENDS Integers, Sequences, FiniteSets, TLC

\* ------------------------------------------------------------------ bounds
\* Images are at most MaxW wide and MaxH high, hold at most MaxArea pixels, and
\* every pixel is in 0 .. MaxVal.
MaxW == 3
MaxH == 3
MaxArea == 4
MaxVal == 1

\* How many goroutines the model follows a spawning loop that cannot end
\* (chunkSize <= 0) through, and how far below the origin its y may fall.
MaxSpin == 3

\* filterSize := 1 in both engines
filterSize == 1

Max2(a, b) == IF a >= b THEN a ELSE b
Min2(a, b) == IF a <= b THEN a ELSE b

\* Chunk sizes a caller passes: invalid ones, and one beyond both dimensions.
ChunkSizes == (-1) .. (Max2(MaxW, MaxH) + 1)

\* Rect.Min of the buffers: image.Gray allows any origin.
Origins == { <<0, 0>>, <<-2, 0>>, <<1, 1>> }

VARIABLES
    img,        \* the input *image.Gray: [Rect, Pix]
    output,     \* the buffer of image.NewGray(bounds)
    fn,         \* which engine was called
    chunkSize,  \* its chunkSize argument (0 for the sequential engine)
    pc,         \* the calling goroutine's position
    x, y,       \* the calling goroutine's loop variables
    wg,         \* the sync.WaitGroup counter
    workers,    \* the goroutines started, in the order of their go statements
    alive,      \* FALSE once an unrecovered panic has ended the process
    result,     \* what the call returned
    wlog,       \* per cell: how often SetGray stored there, and who did
    acc,        \* the <<operation, buffer>> pairs of every pixel access so far
    firstStore, \* the worker whose store came first (0: none yet, or the caller's)
    imageNumber,     \* main's loop variable i (0: the call is not made by main's loop)
    at,              \* the statement of main's loop body that is running
    seqTime,         \* what measureTime returned for the sequential engine
    parallelTime,    \* what measureTime returned for the parallel engine
    performanceData, \* the []PerformanceData slice
    argSize,         \* the size argument of a call of getNeighborhood on its own
    values           \* the slice that call returned

\* The variables of the callers of the engines: main's, and those of a direct
\* call of getNeighborhood. A step inside a filter call leaves them all alone.
callerVars == <<imageNumber, at, seqTime, parallelTime, performanceData, argSize, values>>

vars == <<img, output, fn, chunkSize, pc, x, y, wg, workers, alive, result, wlog, acc,
          firstStore, imageNumber, at, seqTime, parallelTime, performanceData,
          argSize, values>>

\* ------------------------------------------------------------ image.Gray
Rectangle(ox, oy, w, h) ==
    [Min |-> [X |-> ox, Y |-> oy], Max |-> [X |-> ox + w, Y |-> oy + h]]

In(px, py, r) ==
    /\ r.Min.X <= px /\ px < r.Max.X
    /\ r.Min.Y <= py /\ py < r.Max.Y

Cells(r) == { p \in (r.Min.X .. r.Max.X - 1) \X (r.Min.Y .. r.Max.Y - 1) : TRUE }

Dx(r) == r.Max.X - r.Min.X
Dy(r) == r.Max.Y - r.Min.Y

\* image.NewGray: a zeroed buffer over r
NewGray(r) == [Rect |-> r, Pix |-> [p \in Cells(r) |-> 0]]

\* (*image.Gray).GrayAt: the zero color outside the rectangle
GrayAt(im, px, py) ==
    IF In(px, py, im.Rect) THEN im.Pix[<<px, py>>] ELSE 0

\* (*image.Gray).SetGray: nothing outside the rectangle
SetGray(im, px, py, v) ==
    IF In(px, py, im.Rect)
    THEN [im EXCEPT !.Pix[<<px, py>>] = v]
    ELSE im

\* F applied to the value of v, with v evaluated once.
Bind(v, F(_)) == CHOOSE r \in { F(t) : t \in {v} } : TRUE

\* ------------------------------------------------------- getNeighborhood
\* getNeighborhood without its bounds test: a target outside the image gives
\* the zero sample of GrayAt (zero padding).
getNeighborhoodPadded(im, px, py, size) ==
    LET n == 2 * size + 1
        targets == [k \in 1 .. n * n |->
                      << px + ((k - 1) % n) - size, py + ((k - 1) \div n) - size >>]
    IN  [k \in 1 .. n * n |-> GrayAt(im, targets[k][1], targets[k][2])]

\* for dy := -size; dy <= size; dy++ { for dx := -size; dx <= size; dx++ {...} }
getNeighborhood(im, px, py, size) ==
    LET n == 2 * size + 1
        targets == [k \in 1 .. n * n |->
                      << px + ((k - 1) % n) - size, py + ((k - 1) \div n) - size >>]
        inside(t) == /\ t[1] >= 0 /\ t[2] >= 0
                     /\ t[1] < im.Rect.Max.X /\ t[2] < im.Rect.Max.Y
    IN  Bind(SelectSeq(targets, inside),
             LAMBDA kept : [k \in 1 .. Len(kept) |-> GrayAt(im, kept[k][1], kept[k][2])])

\* sort.Slice(neighborhood, less) with less(i, j) = neighborhood[i] < neighborhood[j]
RECURSIVE sortSlice(_)
sortSlice(s) ==
    IF s = << >> THEN << >>
    ELSE LET v == Head(s)
             lo(e) == e < v
             hi(e) == e >= v
         IN  Bind(sortSlice(Tail(s)),
                  LAMBDA t : SelectSeq(t, lo) \o << v >> \o SelectSeq(t, hi))

\* The lower middle element: neighborhood[(len(neighborhood)-1)/2]
medianLower(nb) == Bind(nb, LAMBDA s : sortSlice(s)[((Len(s) - 1) \div 2) + 1])

\* neighborhood[len(neighborhood)/2] of the sorted slice (0-based index)
median(nb) == Bind(nb, LAMBDA s : sortSlice(s)[(Len(s) \div 2) + 1])

\* The index expression panics (index out of range) on an empty slice.
Panics(im, px, py) == Len(getNeighborhood(im, px, py, filterSize)) = 0

\* ------------------------------------------------------------------ calls
bounds == img.Rect

NoWrites(r) == [p \in Cells(r) |-> [n |-> 0, by |-> {}]]

\* A goroutine started by the go statement: its arguments (x, y), its own loop
\* variables, and where it stands.
Worker(x0, y0) == [x |-> x0, y |-> y0, cx |-> x0, cy |-> y0, st |-> "running"]

Rects ==
    { Rectangle(o[1], o[2], d[1], d[2]) :
        o \in Origins,
        d \in { e \in (0 .. MaxW) \X (0 .. MaxH) : e[1] * e[2] <= MaxArea } }

Images ==
    UNION { { [Rect |-> r, Pix |-> px] : px \in [Cells(r) -> 0 .. MaxVal] } : r \in Rects }

\* The state at the first loop test of a call: output allocated and zeroed,
\* the WaitGroup at zero, no goroutine started.
Init ==
    /\ img \in Images
    /\ \/ fn = "medianFilterSequential" /\ chunkSize = 0
       \/ fn = "medianFilterParallel" /\ chunkSize \in ChunkSizes
    /\ output = NewGray(img.Rect)
    /\ pc = "outer"
    /\ x = img.Rect.Min.X
    /\ y = img.Rect.Min.Y
    /\ wg = 0
    /\ workers = << >>
    /\ alive = TRUE
    /\ result = "none"
    /\ wlog = NoWrites(img.Rect)
    /\ acc = {}
    /\ firstStore = 0
    /\ imageNumber = 0
    /\ at = "none"
    /\ seqTime = "none"
    /\ parallelTime = "none"
    /\ performanceData = << >>
    /\ argSize = 0
    /\ values = << >>

\* FilterPixel with output aliasing the input (output := img): the median is
\* stored into img.
FilterPixelInPlace(who, px, py) ==
    LET neighborhood == getNeighborhood(img, px, py, filterSize) IN
    /\ img' = SetGray(img, px, py, median(neighborhood))
    /\ wlog' = IF In(px, py, output.Rect)
               THEN [wlog EXCEPT ![<<px, py>>] = [n |-> @.n + 1, by |-> @.by \cup {who}]]
               ELSE wlog
    /\ acc' = acc \cup { <<"read", "img">>, <<"write", "img">> }
    /\ firstStore' = IF firstStore = 0 THEN who ELSE firstStore
    /\ UNCHANGED output

\* FilterPixel that also stores the median back into img, so that later
\* neighbourhoods see filtered values.
FilterPixelFeedback(who, px, py) ==
    LET neighborhood == getNeighborhood(img, px, py, filterSize) IN
    /\ output' = SetGray(output, px, py, median(neighborhood))
    /\ img' = SetGray(img, px, py, median(neighborhood))
    /\ wlog' = IF In(px, py, output.Rect)
               THEN [wlog EXCEPT ![<<px, py>>] = [n |-> @.n + 1, by |-> @.by \cup {who}]]
               ELSE wlog
    /\ acc' = acc \cup { <<"read", "img">>, <<"write", "output">>, <<"write", "img">> }
    /\ firstStore' = IF firstStore = 0 THEN who ELSE firstStore

\* One pixel of either engine: the neighbourhood is read from img, sorted, and
\* its middle element stored in output (who = 0 is the calling goroutine).
FilterPixel(who, px, py) ==
    LET neighborhood == getNeighborhood(img, px, py, filterSize) IN
    /\ output' = SetGray(output, px, py, median(neighborhood))
    /\ wlog' = IF In(px, py, output.Rect)
               THEN [wlog EXCEPT ![<<px, py>>] = [n |-> @.n + 1, by |-> @.by \cup {who}]]
               ELSE wlog
    /\ acc' = acc \cup { <<"read", "img">>, <<"write", "output">> }
    /\ firstStore' = IF firstStore = 0 THEN who ELSE firstStore
    /\ UNCHANGED img

\* ------------------------------------------------ medianFilterSequential
\* for y := bounds.Min.Y; y < bounds.Max.Y; y++
SeqOuter ==
    /\ alive /\ fn = "medianFilterSequential" /\ pc = "outer"
    /\ IF y < bounds.Max.Y
       THEN /\ pc' = "inner" /\ x' = bounds.Min.X /\ UNCHANGED result
       ELSE /\ pc' = "returned" /\ result' = "output" /\ UNCHANGED x
    /\ UNCHANGED <<img, output, fn, chunkSize, y, wg, workers, alive, wlog, acc, firstStore>>
    /\ UNCHANGED callerVars

\* for x := bounds.Min.X; x < bounds.Max.X; x++ { one pixel }
SeqInner ==
    /\ alive /\ fn = "medianFilterSequential" /\ pc = "inner"
    /\ IF x < bounds.Max.X
       THEN IF Panics(img, x, y)
            THEN /\ pc' = "panicking"
                 /\ acc' = acc \cup { <<"read", "img">> }
                 /\ UNCHANGED <<img, output, wlog, firstStore, x, y>>
            ELSE /\ FilterPixel(0, x, y)
                 /\ x' = x + 1
                 /\ UNCHANGED <<pc, y>>
       ELSE /\ y' = y + 1
            /\ pc' = "outer"
            /\ UNCHANGED <<img, output, wlog, acc, firstStore, x>>
    /\ UNCHANGED <<fn, chunkSize, wg, workers, alive, result>>
    /\ UNCHANGED callerVars

\* -------------------------------------------------- medianFilterParallel
\* ParOuter with an inclusive bound: for y := bounds.Min.Y; y <= bounds.Max.Y; ...
ParOuterInclusive ==
    /\ alive /\ fn = "medianFilterParallel" /\ pc = "outer"
    /\ IF y <= bounds.Max.Y
       THEN pc' = "inner" /\ x' = bounds.Min.X
       ELSE pc' = "wait" /\ UNCHANGED x
    /\ UNCHANGED <<img, output, fn, chunkSize, y, wg, workers, alive, result, wlog, acc, firstStore>>
    /\ UNCHANGED callerVars

\* for y := bounds.Min.Y; y < bounds.Max.Y; y += chunkSize; then wg.Wait()
ParOuter ==
    /\ alive /\ fn = "medianFilterParallel" /\ pc = "outer"
    /\ IF y < bounds.Max.Y
       THEN pc' = "inner" /\ x' = bounds.Min.X
       ELSE pc' = "wait" /\ UNCHANGED x
    /\ UNCHANGED <<img, output, fn, chunkSize, y, wg, workers, alive, result, wlog, acc, firstStore>>
    /\ UNCHANGED callerVars

\* for x := bounds.Min.X; x < bounds.Max.X; x += chunkSize
ParInner ==
    /\ alive /\ fn = "medianFilterParallel" /\ pc = "inner"
    /\ IF x < bounds.Max.X
       THEN /\ chunkSize <= 0 => Len(workers) < MaxSpin
            /\ pc' = "add" /\ UNCHANGED y
       ELSE /\ chunkSize <= 0 => y + chunkSize >= bounds.Min.Y - MaxSpin
            /\ y' = y + chunkSize /\ pc' = "outer"
    /\ UNCHANGED <<img, output, fn, chunkSize, x, wg, workers, alive, result, wlog, acc, firstStore>>
    /\ UNCHANGED callerVars

\* ParAdd with the increment left out (the Add moved into the goroutine).
ParAddSkipped ==
    /\ alive /\ fn = "medianFilterParallel" /\ pc = "add"
    /\ pc' = "go"
    /\ UNCHANGED <<img, output, fn, chunkSize, x, y, wg, workers, alive, result, wlog, acc, firstStore>>
    /\ UNCHANGED callerVars

\* wg.Add(1)
ParAdd ==
    /\ alive /\ fn = "medianFilterParallel" /\ pc = "add"
    /\ wg' = wg + 1
    /\ pc' = "go"
    /\ UNCHANGED <<img, output, fn, chunkSize, x, y, workers, alive, result, wlog, acc, firstStore>>
    /\ UNCHANGED callerVars

\* ParGo with the arguments of the go statement swapped: go func(x, y int){...}(y, x)
ParGoSwapped ==
    /\ alive /\ fn = "medianFilterParallel" /\ pc = "go"
    /\ workers' = Append(workers, Worker(y, x))
    /\ x' = x + chunkSize
    /\ pc' = "inner"
    /\ UNCHANGED <<img, output, fn, chunkSize, y, wg, alive, result, wlog, acc, firstStore>>
    /\ UNCHANGED callerVars

\* ParGo with a stride one too long: x += chunkSize + 1
ParGoOverstride ==
    /\ alive /\ fn = "medianFilterParallel" /\ pc = "go"
    /\ workers' = Append(workers, Worker(x, y))
    /\ x' = x + chunkSize + 1
    /\ pc' = "inner"
    /\ UNCHANGED <<img, output, fn, chunkSize, y, wg, alive, result, wlog, acc, firstStore>>
    /\ UNCHANGED callerVars

\* ParGo whose goroutine reads the loop variable itself, after x += chunkSize:
\* go func() {... x ...}()
ParGoCaptured ==
    /\ alive /\ fn = "medianFilterParallel" /\ pc = "go"
    /\ workers' = Append(workers, Worker(x + chunkSize, y))
    /\ x' = x + chunkSize
    /\ pc' = "inner"
    /\ UNCHANGED <<img, output, fn, chunkSize, y, wg, alive, result, wlog, acc, firstStore>>
    /\ UNCHANGED callerVars

\* go func(x, y int) {...}(x, y), then the inner loop's x += chunkSize
ParGo ==
    /\ alive /\ fn = "medianFilterParallel" /\ pc = "go"
    /\ workers' = Append(workers, Worker(x, y))
    /\ x' = x + chunkSize
    /\ pc' = "inner"
    /\ UNCHANGED <<img, output, fn, chunkSize, y, wg, alive, result, wlog, acc, firstStore>>
    /\ UNCHANGED callerVars

\* ParWait without the barrier: return output with wg.Wait() left out
ParWaitNoBarrier ==
    /\ alive /\ fn = "medianFilterParallel" /\ pc = "wait"
    /\ pc' = "returned"
    /\ result' = "output"
    /\ UNCHANGED <<img, output, fn, chunkSize, x, y, wg, workers, alive, wlog, acc, firstStore>>
    /\ UNCHANGED callerVars

\* wg.Wait() returns once the counter is zero; return output
ParWait ==
    /\ alive /\ fn = "medianFilterParallel" /\ pc = "wait"
    /\ wg = 0
    /\ pc' = "returned"
    /\ result' = "output"
    /\ UNCHANGED <<img, output, fn, chunkSize, x, y, wg, workers, alive, wlog, acc, firstStore>>
    /\ UNCHANGED callerVars

\* RowCond off by one: cy <= y+chunkSize && cy < bounds.Max.Y
RowCondInclusive(w) == w.cy <= w.y + chunkSize /\ w.cy < bounds.Max.Y

\* ColCond without the chunk's own edge: cx < bounds.Max.X
ColCondUnclipped(w) == w.cx < bounds.Max.X

\* cy < y+chunkSize && cy < bounds.Max.Y
RowCond(w) == w.cy < w.y + chunkSize /\ w.cy < bounds.Max.Y

\* cx < x+chunkSize && cx < bounds.Max.X
ColCond(w) == w.cx < w.x + chunkSize /\ w.cx < bounds.Max.X

\* cx++, and when that ends the row: cy++ and cx := x
NextCell(w) ==
    LET right == [w EXCEPT !.cx = @ + 1] IN
    IF ColCond(right) THEN right ELSE [w EXCEPT !.cy = @ + 1, !.cx = w.x]

\* One pixel of the worker's chunk, up to the next test of a loop that has a
\* pixel to do.  A panic runs the deferred wg.Done() before the process dies.
WorkerStep(i) ==
    LET w == workers[i] IN
    /\ alive /\ w.st = "running"
    /\ RowCond(w) /\ ColCond(w)
    /\ IF Panics(img, w.cx, w.cy)
       THEN /\ workers' = [workers EXCEPT ![i].st = "panicking"]
            /\ wg' = wg - 1
            /\ acc' = acc \cup { <<"read", "img">> }
            /\ UNCHANGED <<img, output, wlog, firstStore>>
       ELSE /\ FilterPixel(i, w.cx, w.cy)
            /\ workers' = [workers EXCEPT ![i] = NextCell(w)]
            /\ UNCHANGED wg
    /\ UNCHANGED <<fn, chunkSize, pc, x, y, alive, result>>
    /\ UNCHANGED callerVars

\* WorkerDone without the deferred call: the goroutine returns and the
\* counter stays where it was.
WorkerDoneNoDone(i) ==
    LET w == workers[i] IN
    /\ alive /\ w.st = "running"
    /\ ~RowCond(w)
    /\ workers' = [workers EXCEPT ![i].st = "done"]
    /\ UNCHANGED <<img, output, fn, chunkSize, pc, x, y, wg, alive, result, wlog, acc, firstStore>>
    /\ UNCHANGED callerVars

\* The outer loop ends, the goroutine returns: defer wg.Done()
WorkerDone(i) ==
    LET w == workers[i] IN
    /\ alive /\ w.st = "running"
    /\ ~RowCond(w)
    /\ workers' = [workers EXCEPT ![i].st = "done"]
    /\ wg' = wg - 1
    /\ UNCHANGED <<img, output, fn, chunkSize, pc, x, y, alive, result, wlog, acc, firstStore>>
    /\ UNCHANGED callerVars

\* An unrecovered panic in any goroutine ends the whole process.
Crash ==
    /\ alive
    /\ \/ pc = "panicking"
       \/ \E i \in 1 .. Len(workers) : workers[i].st = "panicking"
    /\ alive' = FALSE
    /\ UNCHANGED <<img, output, fn, chunkSize, pc, x, y, wg, workers, result, wlog, acc, firstStore>>
    /\ UNCHANGED callerVars

Next ==
    \/ SeqOuter
    \/ SeqInner
    \/ ParOuter
    \/ ParInner
    \/ ParAdd
    \/ ParGo
    \/ ParWait
    \/ \E i \in 1 .. Len(workers) : WorkerStep(i)
    \/ \E i \in 1 .. Len(workers) : WorkerDone(i)
    \/ Crash

Spec == Init /\ [][Next]_vars

\* ------------------------------------------- the parallel engine, scheduled
\* The calling goroutine of medianFilterParallel: whichever statement it is at.
Spawner == ParOuter \/ ParInner \/ ParAdd \/ ParGo \/ ParWait

\* The i-th goroutine started, once it exists: its next step.
Goroutine(i) == i \in 1 .. Len(workers) /\ (WorkerStep(i) \/ WorkerDone(i))

\* Most goroutines a call with chunkSize >= 1 starts: one per pixel.
MostWorkers == MaxArea

ParInit == Init /\ fn = "medianFilterParallel" /\ chunkSize >= 1

ParNext ==
    \/ Spawner
    \/ \E i \in 1 .. Len(workers) : WorkerStep(i)
    \/ \E i \in 1 .. Len(workers) : WorkerDone(i)
    \/ Crash

\* The Go scheduler runs every runnable goroutine again and again, and the
\* runtime ends the process after an unrecovered panic.
FairSpec ==
    /\ ParInit /\ [][ParNext]_vars
    /\ WF_vars(Spawner)
    /\ \A i \in 1 .. MostWorkers : WF_vars(Goroutine(i))
    /\ WF_vars(Crash)

\* ------------------------------------------------- main: the benchmark loop
\* The loop of main runs over kodim01.png .. kodim24.png; the model over
\* 1 .. NumImages.
NumImages == 2

\* A decoded PNG has its origin at (0, 0) and at least one pixel, and
\* toBlackAndWhite keeps its bounds. The loop of main never looks at a pixel:
\* one image of every size stands for the dataset.
BenchImages ==
    { NewGray(r) : r \in { q \in Rects : q.Min.X = 0 /\ q.Min.Y = 0 /\ Dx(q) >= 1 /\ Dy(q) >= 1 } }

\* The chunk size main passes: 45, which cuts a dataset image into many chunks;
\* 1 does the same to an image of the model.
BenchChunkSizes == { 1, 45 }

\* time.Since(start): some duration.
Durations == { "d1", "d2" }

\* Before the first decode there is no image and no call.
NoImage == NewGray(Rectangle(0, 0, 0, 0))

\* A call of engine f on im with chunk size c, at its first loop test.
Enter(im, f, c) ==
    /\ fn' = f
    /\ chunkSize' = c
    /\ output' = NewGray(im.Rect)
    /\ pc' = "outer"
    /\ x' = im.Rect.Min.X
    /\ y' = im.Rect.Min.Y
    /\ wg' = 0
    /\ workers' = << >>
    /\ result' = "none"
    /\ wlog' = NoWrites(im.Rect)
    /\ acc' = {}
    /\ firstStore' = 0
    /\ UNCHANGED alive

BenchInit ==
    /\ img = NoImage
    /\ output = NoImage
    /\ fn = "none"
    /\ chunkSize = 0
    /\ pc = "idle"
    /\ x = 0
    /\ y = 0
    /\ wg = 0
    /\ workers = << >>
    /\ alive = TRUE
    /\ result = "none"
    /\ wlog = NoWrites(NoImage.Rect)
    /\ acc = {}
    /\ firstStore = 0
    /\ imageNumber = 1
    /\ at = "for"
    /\ seqTime = "none"
    /\ parallelTime = "none"
    /\ performanceData = << >>
    /\ argSize = 0
    /\ values = << >>

\* for i := 1; i <= 24; i++: decode the next image, convert it, and call
\* measureTime on the sequential engine; after the last image, go on to the
\* plot and the table.
MainFor ==
    /\ at = "for"
    /\ IF imageNumber <= NumImages
       THEN \E bwImage \in BenchImages :
               /\ img' = bwImage
               /\ at' = "seqTime"
               /\ Enter(bwImage, "medianFilterSequential", 0)
       ELSE /\ at' = "table"
            /\ UNCHANGED <<img, output, fn, chunkSize, pc, x, y, wg, workers, alive, result,
                           wlog, acc, firstStore>>
    /\ UNCHANGED <<imageNumber, seqTime, parallelTime, performanceData>>
    /\ UNCHANGED <<argSize, values>>

\* seqTime := measureTime(...) has its function() returned; then
\* sequentialOutput := medianFilterSequential(bwImage) is called.
MainSeqTime ==
    /\ at = "seqTime" /\ pc = "returned"
    /\ seqTime' \in Durations
    /\ at' = "sequentialOutput"
    /\ Enter(img, "medianFilterSequential", 0)
    /\ UNCHANGED <<img, imageNumber, parallelTime, performanceData>>
    /\ UNCHANGED <<argSize, values>>

\* sequentialOutput is returned and saved; then
\* parallelTime := measureTime(...) calls medianFilterParallel(bwImage, 45).
MainSequentialOutput ==
    /\ at = "sequentialOutput" /\ pc = "returned"
    /\ at' = "parallelTime"
    /\ \E c \in BenchChunkSizes : Enter(img, "medianFilterParallel", c)
    /\ UNCHANGED <<img, imageNumber, seqTime, parallelTime, performanceData>>
    /\ UNCHANGED <<argSize, values>>

\* measureTime that takes its reading without waiting for function() to return.
MainParallelTimeEarly ==
    /\ at = "parallelTime"
    /\ parallelTime' \in Durations
    /\ at' = "parallelOutput"
    /\ Enter(img, "medianFilterParallel", chunkSize)
    /\ UNCHANGED <<img, imageNumber, seqTime, performanceData>>
    /\ UNCHANGED <<argSize, values>>

\* parallelTime := measureTime(...) has its function() returned; then
\* parallelOutput := medianFilterParallel(bwImage, 45) is called.
MainParallelTime ==
    /\ at = "parallelTime" /\ pc = "returned"
    /\ parallelTime' \in Durations
    /\ at' = "parallelOutput"
    /\ Enter(img, "medianFilterParallel", chunkSize)
    /\ UNCHANGED <<img, imageNumber, seqTime, performanceData>>
    /\ UNCHANGED <<argSize, values>>

\* An append that stores the record in front of the others.
MainAppendInFront ==
    /\ at = "parallelOutput" /\ pc = "returned"
    /\ performanceData' =
           << [ImageNumber |-> imageNumber, SequentialTime |-> seqTime,
               ParallelTime |-> parallelTime] >> \o performanceData
    /\ imageNumber' = imageNumber + 1
    /\ at' = "for"
    /\ seqTime' = "none"
    /\ parallelTime' = "none"
    /\ UNCHANGED <<img, output, fn, chunkSize, pc, x, y, wg, workers, alive, result, wlog, acc,
                   firstStore>>
    /\ UNCHANGED <<argSize, values>>

\* parallelOutput is returned and saved; performanceData = append(performanceData,
\* PerformanceData{i, seqTime, parallelTime}); i++. seqTime and parallelTime go
\* out of scope with the iteration.
MainAppend ==
    /\ at = "parallelOutput" /\ pc = "returned"
    /\ performanceData' =
           Append(performanceData,
                  [ImageNumber |-> imageNumber, SequentialTime |-> seqTime,
                   ParallelTime |-> parallelTime])
    /\ imageNumber' = imageNumber + 1
    /\ at' = "for"
    /\ seqTime' = "none"
    /\ parallelTime' = "none"
    /\ UNCHANGED <<img, output, fn, chunkSize, pc, x, y, wg, workers, alive, result, wlog, acc,
                   firstStore>>
    /\ UNCHANGED <<argSize, values>>

\* main and the calls it makes. No image of BenchImages has an empty
\* neighbourhood, so no call of the loop panics.
BenchNext ==
    \/ MainFor
    \/ MainSeqTime
    \/ MainSequentialOutput
    \/ MainParallelTime
    \/ MainAppend
    \/ SeqOuter
    \/ SeqInner
    \/ ParOuter
    \/ ParInner
    \/ ParAdd
    \/ ParGo
    \/ ParWait
    \/ \E i \in 1 .. Len(workers) : WorkerStep(i)
    \/ \E i \in 1 .. Len(workers) : WorkerDone(i)

BenchSpec == BenchInit /\ [][BenchNext]_vars

\* ------------------------------------------- the engines as pure functions
\* The values a counting loop "for a := lo; a < hi; a += step" takes (step >= 1).
RECURSIVE Stride(_, _, _)
Stride(lo, hi, step) ==
    IF lo < hi THEN << lo >> \o Stride(lo + step, hi, step) ELSE << >>

\* The pairs <<a, b>> of a nested loop, b outer over ys and a inner over xs.
RECURSIVE Nest(_, _)
Nest(xs, ys) ==
    IF ys = << >> THEN << >>
    ELSE [k \in 1 .. Len(xs) |-> << xs[k], Head(ys) >>] \o Nest(xs, Tail(ys))

\* The loop body of both engines applied to a sequence of cells in turn, by
\* one goroutine: a panic of the indexing ends the goroutine where it stands.
RECURSIVE FilterCells(_, _, _)
FilterCells(out, im, cells) ==
    IF cells = << >> THEN out
    ELSE LET c == Head(cells)
             neighborhood == getNeighborhood(im, c[1], c[2], filterSize)
         IN  IF Panics(im, c[1], c[2]) THEN out
             ELSE FilterCells(SetGray(out, c[1], c[2], median(neighborhood)),
                              im, Tail(cells))

\* The buffer medianFilterSequential(im) returns.
SequentialOutput(im) ==
    LET r == im.Rect IN
    FilterCells(NewGray(r), im,
                Nest(Stride(r.Min.X, r.Max.X, 1), Stride(r.Min.Y, r.Max.Y, 1)))

\* The origins the two striding loops of medianFilterParallel pass to go func.
ChunkOrigins(r, c) ==
    Nest(Stride(r.Min.X, r.Max.X, c), Stride(r.Min.Y, r.Max.Y, c))

\* The cells the goroutine started with (x0, y0) visits, in its order.
ChunkCells(r, c, x0, y0) ==
    Nest(Stride(x0, Min2(x0 + c, r.Max.X), 1), Stride(y0, Min2(y0 + c, r.Max.Y), 1))

\* medianFilterParallel(im, c) under the schedule that runs every goroutine to
\* its end as soon as it is started.
RECURSIVE RunChunks(_, _, _, _)
RunChunks(out, im, c, origins) ==
    IF origins = << >> THEN out
    ELSE LET o == Head(origins) IN
         RunChunks(FilterCells(out, im, ChunkCells(im.Rect, c, o[1], o[2])),
                   im, c, Tail(origins))

SerialScheduleOutput(im, c) ==
    RunChunks(NewGray(im.Rect), im, c, ChunkOrigins(im.Rect, c))

\* ----------------------------------------------------- shared predicates
Sequential == fn = "medianFilterSequential"
Parallel == fn = "medianFilterParallel"
Returned == pc = "returned"
W == Dx(bounds)
H == Dy(bounds)
WorkerIds == 1 .. Len(workers)

\* Every pixel of im has a sample: the indexing of the sorted slice cannot panic.
NeverEmpty(im) == \A p \in Cells(im.Rect) : ~Panics(im, p[1], p[2])

\* The cells of worker w's chunk, as the data model defines a chunk:
\* [x, min(x+C, Max.X)) x [y, min(y+C, Max.Y)).
ChunkRect(w) ==
    { p \in Cells(bounds) :
        /\ w.x <= p[1] /\ p[1] < Min2(w.x + chunkSize, bounds.Max.X)
        /\ w.y <= p[2] /\ p[2] < Min2(w.y + chunkSize, bounds.Max.Y) }

\* The columns and the rows worker w's two loops run their body on: the
\* values of cx, and of cy, up to the first that fails the loop's test.
LoopCols(w) ==
    { a \in w.x .. Max2(w.x, bounds.Max.X) + 1 :
        \A a2 \in w.x .. a : ColCond([w EXCEPT !.cx = a2]) }

LoopRows(w) ==
    { b \in w.y .. Max2(w.y, bounds.Max.Y) + 1 :
        \A b2 \in w.y .. b : RowCond([w EXCEPT !.cy = b2]) }

LoopCells(w) == LoopCols(w) \X LoopRows(w)

\* ------------------------------------- the functions called on their own
\* Radii passed to getNeighborhood as its size argument.
MaxRadius == 1

Radii == 0 .. MaxRadius

\* The image over r whose pixels, row after row, are 10, 20, 30, ...
Ramp(r) ==
    [Rect |-> r,
     Pix |-> [p \in Cells(r) |-> 10 * ((p[2] - r.Min.Y) * Dx(r) + (p[1] - r.Min.X) + 1)]]

\* The images the functions are called on: every image of Images, and a ramp
\* over every rectangle up to MaxW x MaxH.
UnitImages ==
    Images \cup { Ramp(Rectangle(o[1], o[2], d[1], d[2])) :
                    o \in Origins, d \in (1 .. MaxW) \X (1 .. MaxH) }

UnitInit ==
    /\ img \in UnitImages
    /\ output = NoImage
    /\ fn = "none"
    /\ chunkSize = 0
    /\ pc = "idle"
    /\ x = 0
    /\ y = 0
    /\ wg = 0
    /\ workers = << >>
    /\ alive = TRUE
    /\ result = "none"
    /\ wlog = NoWrites(NoImage.Rect)
    /\ acc = {}
    /\ firstStore = 0
    /\ imageNumber = 0
    /\ at = "start"
    /\ seqTime = "none"
    /\ parallelTime = "none"
    /\ performanceData = << >>
    /\ argSize = 0
    /\ values = << >>

\* values := getNeighborhood(img, x, y, size) for a pixel of img
CallGetNeighborhood ==
    /\ at = "start"
    /\ \E p \in Cells(img.Rect), r \in Radii :
          /\ x' = p[1]
          /\ y' = p[2]
          /\ argSize' = r
          /\ values' = getNeighborhood(img, p[1], p[2], r)
    /\ at' = "getNeighborhood"
    /\ UNCHANGED <<img, output, fn, chunkSize, pc, wg, workers, alive, result, wlog, acc,
                   firstStore, imageNumber, seqTime, parallelTime, performanceData>>

\* output := medianFilterSequential(img), from call to return; on an image
\* with an empty neighbourhood the call panics instead.
CallSequential ==
    /\ at = "start"
    /\ fn' = "medianFilterSequential"
    /\ IF NeverEmpty(img)
       THEN /\ output' = SequentialOutput(img)
            /\ at' = "once"
       ELSE /\ at' = "panicked"
            /\ UNCHANGED output
    /\ UNCHANGED <<img, chunkSize, pc, x, y, wg, workers, alive, result, wlog, acc, firstStore,
                   imageNumber, seqTime, parallelTime, performanceData, argSize, values>>

\* A second pass that hands back the buffer it is given.
CallSequentialAgainSame ==
    /\ at = "once"
    /\ img' = output
    /\ at' = "twice"
    /\ UNCHANGED <<output, fn, chunkSize, pc, x, y, wg, workers, alive, result, wlog, acc,
                   firstStore, imageNumber, seqTime, parallelTime, performanceData, argSize,
                   values>>

\* output = medianFilterSequential(output): the filtered image is filtered
\* again; img now stands for the result of the first pass.
CallSequentialAgain ==
    /\ at = "once"
    /\ img' = output
    /\ output' = SequentialOutput(output)
    /\ at' = "twice"
    /\ UNCHANGED <<fn, chunkSize, pc, x, y, wg, workers, alive, result, wlog, acc,
                   firstStore, imageNumber, seqTime, parallelTime, performanceData, argSize,
                   values>>

UnitNext ==
    \/ CallGetNeighborhood
    \/ CallSequential
    \/ CallSequentialAgain

UnitSpec == UnitInit /\ [][UnitNext]_vars

\* The offsets (dx, dy) of a neighbourhood of radius r.
Offsets(r) == (-r .. r) \X (-r .. r)

\* How many elements of the sequence s are v.
Count(s, v) == Cardinality({ k \in 1 .. Len(s) : s[k] = v })

\* im moved by (dx, dy).
Translate(im, dx, dy) ==
    LET r == Rectangle(im.Rect.Min.X + dx, im.Rect.Min.Y + dy, Dx(im.Rect), Dy(im.Rect)) IN
    [Rect |-> r, Pix |-> [p \in Cells(r) |-> im.Pix[<<p[1] - dx, p[2] - dy>>]]]

\* ------------------------------------------------------------------ claims

\* C1: when medianFilterParallel(img, c) returns, for c >= 1 and an image on
\* which the sequential sweep returns a buffer, output is cell for cell the
\* buffer medianFilterSequential(img) returns, under every interleaving of the
\* workers; the sequential engine's own steps end in that same buffer.
C1_ParallelEqualsSequential ==
    (Returned /\ NeverEmpty(img) /\ (Parallel => chunkSize >= 1))
        => output = SequentialOutput(img)

\* A parallel call of the claim's range (1 <= c <= max(W,H)) has returned with
\* several workers and a filtered buffer that is not all zero.
C1_Witness ==
    /\ Parallel /\ Returned /\ NeverEmpty(img)
    /\ chunkSize >= 1 /\ chunkSize <= Max2(W, H)
    /\ Len(workers) >= 3
    /\ \E p \in Cells(bounds) : output.Pix[p] # 0
    /\ \E p \in Cells(bounds) : output.Pix[p] # img.Pix[p]

\* C2: medianFilterParallel has returned only in states where the spawning
\* loops are over and no spawned worker is still running or yet to run.
C2_ReturnAfterAllWorkers ==
    (Parallel /\ Returned) =>
        /\ wg = 0
        /\ \A i \in WorkerIds : workers[i].st # "running"
        /\ chunkSize >= 1 => Len(workers) = Len(ChunkOrigins(bounds, chunkSize))

\* A call that started four workers has returned.
C2_Witness ==
    /\ Parallel /\ Returned /\ Len(workers) = 4
    /\ \A i \in WorkerIds : workers[i].st = "done"

\* C3: when a filter call returns (either engine, chunk size >= 1) on an image
\* whose neighbourhoods are never empty, every coordinate of the output buffer
\* has been stored to exactly once.
C3_WrittenExactlyOnce ==
    (Returned /\ NeverEmpty(img) /\ (Parallel => chunkSize >= 1))
        => \A p \in Cells(bounds) : wlog[p].n = 1

\* A parallel call with clipped chunks (W = 3, C = 2) has returned.
C3_Witness ==
    /\ Parallel /\ Returned /\ W = 3 /\ chunkSize = 2
    /\ \A p \in Cells(bounds) : wlog[p].n = 1

\* C4: every store of a worker lands inside its own chunk, no cell is stored
\* to by two workers, and no two workers stand before a store to the same cell.
C4_DisjointWrites ==
    Parallel =>
        /\ \A p \in Cells(bounds) :
              /\ \A i \in wlog[p].by : i \in WorkerIds /\ p \in ChunkRect(workers[i])
              /\ Cardinality(wlog[p].by) <= 1
        /\ \A i, j \in WorkerIds :
              (/\ i # j
               /\ workers[i].st = "running" /\ RowCond(workers[i]) /\ ColCond(workers[i])
               /\ workers[j].st = "running" /\ RowCond(workers[j]) /\ ColCond(workers[j]))
              => <<workers[i].cx, workers[i].cy>> # <<workers[j].cx, workers[j].cy>>
        /\ \A i \in WorkerIds :
              (workers[i].st = "running" /\ RowCond(workers[i]) /\ ColCond(workers[i]))
              => <<workers[i].cx, workers[i].cy>> \in ChunkRect(workers[i])

\* Two workers of a 2 x 2 image have each stored to their own cell while two
\* more are still running.
C4_Witness ==
    /\ Parallel /\ chunkSize = 1 /\ W = 2 /\ H = 2
    /\ Cardinality({ p \in Cells(bounds) : wlog[p].n = 1 }) = 2
    /\ Cardinality({ i \in WorkerIds : workers[i].st = "running" }) = 2

\* C5: no step of either engine changes the input buffer; every pixel read
\* is a read of img and every store a store to output.
C5_InputReadOnly ==
    /\ [][img' = img]_vars
    /\ [](acc \subseteq { <<"read", "img">>, <<"write", "output">> })

\* A call has filtered its whole image and the output differs from the input,
\* which it has left as it was.
C5_Witness ==
    /\ Returned /\ W * H >= 3
    /\ acc = { <<"read", "img">>, <<"write", "output">> }
    /\ output.Pix # img.Pix

\* C6: for chunk size >= 1 the buffer medianFilterParallel returns is the one
\* the serial schedule (each worker run to its end when it is started) gives,
\* whatever order the workers started, interleaved and finished in.
C6_ScheduleIndependent ==
    (Parallel /\ Returned /\ chunkSize >= 1)
        => output = SerialScheduleOutput(img, chunkSize)

\* A call has returned whose last-started worker stored before its
\* first-started worker did: a schedule other than the serial one.
C6_Witness ==
    /\ Parallel /\ Returned /\ chunkSize = 1 /\ Len(workers) = 4
    /\ \E p \in Cells(bounds) : output.Pix[p] # 0
    /\ firstStore = Len(workers)

\* A worker that has been started and has not run yet.
Fresh(w) == w = Worker(w.x, w.y)

\* C7: for every image and chunk size >= 1, once the two striding loops are
\* over the chunks they generated (seen in the state where the workers have
\* yet to run) are non-empty rectangles
\* [x, min(x+C, Max.X)) x [y, min(y+C, Max.Y)) inside the image, pairwise
\* disjoint, and each cell of the image is in exactly one of them; a chunk
\* narrower or lower than C reaches the image's right or lower edge.
C7_ChunksTileImage ==
    (/\ Parallel /\ chunkSize >= 1 /\ pc = "wait"
     /\ \A i \in WorkerIds : Fresh(workers[i])) =>
        LET cols == [i \in WorkerIds |-> LoopCols(workers[i])]
            rows == [i \in WorkerIds |-> LoopRows(workers[i])]
        IN
        /\ \A i \in WorkerIds :
              /\ cols[i] = workers[i].x .. (Min2(workers[i].x + chunkSize, bounds.Max.X) - 1)
              /\ rows[i] = workers[i].y .. (Min2(workers[i].y + chunkSize, bounds.Max.Y) - 1)
              /\ cols[i] # {} /\ cols[i] \subseteq bounds.Min.X .. (bounds.Max.X - 1)
              /\ rows[i] # {} /\ rows[i] \subseteq bounds.Min.Y .. (bounds.Max.Y - 1)
              /\ Cardinality(cols[i]) < chunkSize => workers[i].x + chunkSize > bounds.Max.X
              /\ Cardinality(rows[i]) < chunkSize => workers[i].y + chunkSize > bounds.Max.Y
        /\ \A i, j \in WorkerIds :
              i # j => (cols[i] \cap cols[j] = {} \/ rows[i] \cap rows[j] = {})
        /\ \A p \in Cells(bounds) :
              Cardinality({ i \in WorkerIds : p[1] \in cols[i] /\ p[2] \in rows[i] }) = 1

\* The loops are over for an image one pixel wide and two high with C = 2:
\* the chunk size exceeds one dimension but not the other, and one clipped
\* chunk covers the image.
C7_Witness ==
    /\ Parallel /\ pc = "wait" /\ W = 1 /\ H = 2 /\ chunkSize = 2
    /\ Len(workers) = 1 /\ Fresh(workers[1])
    /\ Cardinality(LoopCells(workers[1])) = 2

\* The loops are over for a 3 x 1 image with C = 2: a full-width chunk and a
\* clipped last chunk.
C7_WitnessClipped ==
    /\ Parallel /\ pc = "wait" /\ W = 3 /\ H = 1 /\ chunkSize = 2
    /\ Len(workers) = 2 /\ Fresh(workers[1]) /\ Fresh(workers[2])
    /\ Cardinality(LoopCells(workers[2])) = 1

\* C8 (as claimed): a parallel call with chunk size <= 0 on a non-empty image
\* starts no worker and, when it returns, reports InvalidChunkSize instead of
\* an output buffer.
C8_InvalidChunkSizeReported ==
    (Parallel /\ chunkSize <= 0 /\ W >= 1 /\ H >= 1) =>
        /\ workers = << >> /\ wg = 0
        /\ Returned => result = "InvalidChunkSize"

\* C9 (as claimed): a call of either engine on a zero-area buffer (origin
\* (0,0), W = 0 or H = 0) returns InvalidDimensions and no output buffer.
C9_InvalidDimensionsReported ==
    (Returned /\ bounds.Min.X = 0 /\ bounds.Min.Y = 0 /\ (W = 0 \/ H = 0))
        => result = "InvalidDimensions"

\* C10 (as claimed): once a worker has failed the process stays alive, the
\* call returns only after every other worker has ended, and what it returns
\* is the failure, never the output buffer.
C10_WorkerFailureReported ==
    (Parallel /\ \E i \in WorkerIds : workers[i].st = "panicking") =>
        /\ alive
        /\ Returned =>
              /\ result = "WorkerFailure"
              /\ \A i \in WorkerIds : workers[i].st # "running"

\* C11: under weak fairness of the calling goroutine and of every worker, a
\* call of medianFilterParallel with chunk size >= 1, on an image whose
\* neighbourhoods are never empty, eventually returns; until it ends, every
\* worker that is running has a step it can take whatever the others do.
C11_EventuallyReturns ==
    /\ (Parallel /\ chunkSize >= 1 /\ NeverEmpty(img)) ~> Returned
    /\ [](\A i \in WorkerIds :
            (alive /\ workers[i].st = "running")
                => ((RowCond(workers[i]) /\ ColCond(workers[i])) \/ ~RowCond(workers[i])))

\* A call on a 2 x 2 image with one worker per pixel has returned while the
\* process is alive.
C11_Witness ==
    /\ Parallel /\ Returned /\ alive /\ NeverEmpty(img)
    /\ chunkSize = 1 /\ W = 2 /\ H = 2 /\ wg = 0
    /\ \A i \in WorkerIds : ~RowCond(workers[i])

\* C12: in the loop of main a worker goroutine runs only inside a parallel
\* call that has not returned; during the two sequential runs no worker exists;
\* and main moves on to its next statement (the next filter run, of the same or
\* of the next image) only when the run before has returned and every worker it
\* started has terminated.
C12_RunsDoNotOverlap ==
    /\ [](\A i \in WorkerIds :
            workers[i].st = "running"
                => /\ Parallel /\ ~Returned
                   /\ at \in { "parallelTime", "parallelOutput" })
    /\ [](at \in { "seqTime", "sequentialOutput" } => (Sequential /\ workers = << >> /\ wg = 0))
    /\ [][at' # at =>
            /\ at # "for" => Returned
            /\ \A i \in WorkerIds : workers[i].st = "done"]_vars

\* The second parallel run of an image after the first: several workers
\* started, one still running, records of an earlier image already appended.
C12_Witness ==
    /\ at = "parallelOutput" /\ Parallel /\ ~Returned
    /\ Len(workers) >= 2
    /\ \E i \in WorkerIds : workers[i].st = "running"
    /\ Len(performanceData) >= 1

\* C13: when main's loop has processed k images (i = k + 1) performanceData
\* holds exactly k records and the j-th of them carries ImageNumber j; every
\* step leaves performanceData as it is or adds one record at its end.
C13_RecordsInInputOrder ==
    /\ [](/\ Len(performanceData) = imageNumber - 1
          /\ \A j \in 1 .. Len(performanceData) : performanceData[j].ImageNumber = j)
    /\ [][\/ performanceData' = performanceData
          \/ /\ Len(performanceData') = Len(performanceData) + 1
             /\ SubSeq(performanceData', 1, Len(performanceData)) = performanceData]_vars

\* The loop has ended with one record per image, their durations differing.
C13_Witness ==
    /\ at = "table"
    /\ Len(performanceData) = NumImages
    /\ performanceData[1].SequentialTime # performanceData[NumImages].SequentialTime

\* The least integer not below a / b (b >= 1).
Ceil(a, b) == (a + b - 1) \div b

\* C14: a call of medianFilterParallel on a W x H image (W, H >= 1) with chunk
\* size C >= 1 never has more than ceil(W/C) * ceil(H/C) workers, has exactly
\* that many once its spawning loops are over, and no two of them have the
\* same chunk origin; with C >= max(W, H) that is one worker, whose chunk is
\* the whole image and who stores every pixel of the returned buffer.
C14_OneWorkerPerChunk ==
    (Parallel /\ chunkSize >= 1 /\ W >= 1 /\ H >= 1) =>
        /\ Len(workers) <= Ceil(W, chunkSize) * Ceil(H, chunkSize)
        /\ pc \in { "wait", "returned" }
              => Len(workers) = Ceil(W, chunkSize) * Ceil(H, chunkSize)
        /\ \A i, j \in WorkerIds :
              i # j => <<workers[i].x, workers[i].y>> # <<workers[j].x, workers[j].y>>
        /\ (chunkSize >= Max2(W, H) /\ pc \in { "wait", "returned" }) =>
              /\ Len(workers) = 1
              /\ ChunkRect(workers[1]) = Cells(bounds)
              /\ (Returned /\ NeverEmpty(img)) => \A p \in Cells(bounds) : wlog[p].by = { 1 }

\* A call on a 3 x 1 image with C = 2 has returned: ceil(3/2) * ceil(1/2) = 2
\* workers, each of which stored to its own chunk.
C14_Witness ==
    /\ Parallel /\ Returned /\ W = 3 /\ H = 1 /\ chunkSize = 2
    /\ Len(workers) = 2
    /\ bounds.Min.X = 1
    /\ \A p \in Cells(bounds) : wlog[p].n = 1

\* C15: for an image over [0,W) x [0,H), a pixel (x,y) of it and a radius r,
\* getNeighborhood returns one sample for every offset of [-r,r]^2 whose
\* target is inside the image and nothing else: as many samples as such
\* offsets, each value as often as it occurs at those targets; the centre
\* pixel is among them and the slice is not empty; there are (2r+1)^2 samples
\* when r <= x < W-r and r <= y < H-r, and 4 at (0,0) with r = 1, W, H >= 2.
C15_OneSamplePerInBoundsOffset ==
    (at = "getNeighborhood" /\ img.Rect.Min.X = 0 /\ img.Rect.Min.Y = 0) =>
        LET r == argSize
            inb == { d \in Offsets(r) : In(x + d[1], y + d[2], img.Rect) }
            seen == { img.Pix[p] : p \in Cells(img.Rect) } \cup { values[k] : k \in 1 .. Len(values) }
        IN
        /\ Len(values) = Cardinality(inb)
        /\ \A v \in seen :
              Count(values, v) = Cardinality({ d \in inb : img.Pix[<<x + d[1], y + d[2]>>] = v })
        /\ Count(values, img.Pix[<<x, y>>]) >= 1
        /\ values # << >>
        /\ (r <= x /\ x < W - r /\ r <= y /\ y < H - r)
              => Len(values) = (2 * r + 1) * (2 * r + 1)
        /\ (x = 0 /\ y = 0 /\ r = 1 /\ W >= 2 /\ H >= 2) => Len(values) = 4

\* The centre of the 3 x 3 ramp with r = 1: all nine pixels, each once.
C15_Witness ==
    /\ at = "getNeighborhood" /\ img = Ramp(Rectangle(0, 0, 3, 3))
    /\ x = 1 /\ y = 1 /\ argSize = 1
    /\ Len(values) = 9
    /\ \A k \in 1 .. 9 : Count(values, 10 * k) = 1

\* C16: after medianFilterSequential, on an image it returns on, every pixel
\* of output holds the element at 0-based index n \div 2 of the ascending order
\* of the pixel's n neighbourhood samples: a sample v with at most n \div 2
\* samples below it and at least n \div 2 + 1 samples not above it (the median
\* for odd n, the upper of the two middle samples for even n); on the 3 x 3
\* image 10, 20, ..., 90 the centre of the output is 50.
C16_MiddleOfSortedSamples ==
    (at \in { "once", "twice" }) =>
        /\ \A p \in Cells(img.Rect) :
              LET nb == getNeighborhood(img, p[1], p[2], filterSize)
                  n == Len(nb)
                  v == output.Pix[p]
              IN  /\ Count(nb, v) >= 1
                  /\ Cardinality({ k \in 1 .. n : nb[k] < v }) <= n \div 2
                  /\ Cardinality({ k \in 1 .. n : nb[k] <= v }) >= (n \div 2) + 1
        /\ (at = "once" /\ img = Ramp(Rectangle(0, 0, 3, 3))) => output.Pix[<<1, 1>>] = 50

\* The 3 x 3 image 10 .. 90 has been filtered: 50 at the centre (n = 9), 40
\* at the corner (0,0), the upper middle of its four samples 10, 20, 40, 50.
C16_Witness ==
    /\ at = "once"
    /\ img.Rect = Rectangle(0, 0, 3, 3)
    /\ \A p \in Cells(img.Rect) : img.Pix[p] = 10 * (3 * p[2] + p[1] + 1)
    /\ output.Pix[<<1, 1>>] = 50
    /\ output.Pix[<<0, 0>>] = 40

\* C17: the median filter is not idempotent. The second pass over the
\* filtered 3 x 1 image 1, 0, 1 (the result of filtering 0, 1, 0) gives
\* 1, 1, 1, another image.
C17_SecondPassChanges ==
    (/\ at = "twice"
     /\ img.Rect = Rectangle(0, 0, 3, 1)
     /\ img.Pix = [p \in Cells(img.Rect) |-> IF p[1] = 1 THEN 0 ELSE 1])
        => /\ output # img
           /\ output.Pix = [p \in Cells(img.Rect) |-> 1]

\* A second pass has returned a buffer that differs from the first pass's.
C17_Witness ==
    /\ at = "twice"
    /\ img.Rect = Rectangle(0, 0, 3, 1)
    /\ img.Pix[<<0, 0>>] = 1 /\ img.Pix[<<1, 0>>] = 0 /\ img.Pix[<<2, 0>>] = 1
    /\ output.Rect = img.Rect
    /\ output.Pix # img.Pix

\* The workers started that have not ended (by return or by panic).
Unfinished == { i \in WorkerIds : workers[i].st = "running" }

\* C18: in a call of medianFilterParallel with chunk size >= 1 the WaitGroup
\* counter is never negative and equals the number of unfinished workers,
\* counting the worker whose wg.Add(1) is done and whose go statement is next;
\* so it is not 0 while a worker is unfinished; wg.Wait() is reached only after
\* the last chunk was spawned; the counter goes up only by the caller's
\* wg.Add(1), before the worker exists, and goes down only by one, in the step
\* in which exactly one worker ends.
C18_CounterCountsUnfinished ==
    /\ []((Parallel /\ chunkSize >= 1) =>
            /\ wg >= 0
            /\ wg = Cardinality(Unfinished) + (IF pc = "go" THEN 1 ELSE 0)
            /\ wg = 0 => Unfinished = {}
            /\ pc \in { "wait", "returned" }
                  => Len(workers) = Len(ChunkOrigins(bounds, chunkSize)))
    /\ [][(Parallel /\ chunkSize >= 1) =>
            /\ wg' > wg => (wg' = wg + 1 /\ pc = "add" /\ pc' = "go" /\ workers' = workers)
            /\ wg' < wg =>
                  /\ wg' = wg - 1
                  /\ Len(workers') = Len(workers)
                  /\ Cardinality({ i \in WorkerIds :
                                     workers[i].st = "running" /\ workers'[i].st # "running" }) = 1
            /\ \A i \in WorkerIds :
                  (workers[i].st = "running" /\ workers'[i].st # "running") => wg' = wg - 1]_vars

\* Between wg.Add(1) and the go statement of the third chunk: two workers
\* unfinished, one ended, the counter at 3.
C18_Witness ==
    /\ Parallel /\ chunkSize >= 1 /\ pc = "go"
    /\ Len(workers) = 3 /\ Cardinality(Unfinished) = 2
    /\ wg = 3

\* C19: the i-th worker's origin is the i-th pair of values of the spawning
\* loops, the value of (x, y) in the step of its go statement, and stays that
\* whatever the caller does to x and y afterwards; a running worker's cell is
\* inside the chunk of that origin; no two workers have the same origin.
C19_OriginPassedByValue ==
    /\ []((Parallel /\ chunkSize >= 1) =>
            /\ \A i \in WorkerIds :
                  /\ i <= Len(ChunkOrigins(bounds, chunkSize))
                  /\ <<workers[i].x, workers[i].y>> = ChunkOrigins(bounds, chunkSize)[i]
                  /\ (workers[i].st = "running" /\ RowCond(workers[i]) /\ ColCond(workers[i]))
                        => <<workers[i].cx, workers[i].cy>> \in ChunkRect(workers[i])
            /\ \A i, j \in WorkerIds :
                  i # j => <<workers[i].x, workers[i].y>> # <<workers[j].x, workers[j].y>>)
    /\ [][(Parallel /\ chunkSize >= 1) =>
            /\ \A i \in WorkerIds :
                  workers'[i].x = workers[i].x /\ workers'[i].y = workers[i].y
            /\ Len(workers') > Len(workers) =>
                  /\ Len(workers') = Len(workers) + 1
                  /\ workers'[Len(workers')].x = x
                  /\ workers'[Len(workers')].y = y]_vars

\* The spawning loops are over, x and y have moved on, and the first worker
\* has yet to run while the last one has already ended.
C19_Witness ==
    /\ Parallel /\ chunkSize = 1 /\ pc = "wait"
    /\ Len(workers) = 4
    /\ Fresh(workers[1]) /\ workers[4].st = "done"
    /\ y # workers[1].y
    /\ wlog[<<workers[4].x, workers[4].y>>].by = { 4 }

\* C20 (as claimed): for a buffer whose origin is not (0,0), getNeighborhood
\* returns one sample for every offset whose target is inside the rectangle and
\* no other, the filter returns, and its result is the result for the same
\* image moved to the origin (0,0), moved back.
C20_TranslationInvariant ==
    ((img.Rect.Min.X # 0 \/ img.Rect.Min.Y # 0) /\ W >= 1 /\ H >= 1) =>
        /\ at = "getNeighborhood" =>
              LET inb == { d \in Offsets(argSize) : In(x + d[1], y + d[2], img.Rect) }
                  seen == { img.Pix[p] : p \in Cells(img.Rect) }
                              \cup { values[k] : k \in 1 .. Len(values) }
              IN  /\ Len(values) = Cardinality(inb)
                  /\ \A v \in seen :
                        Count(values, v)
                            = Cardinality({ d \in inb : img.Pix[<<x + d[1], y + d[2]>>] = v })
        /\ at # "panicked"
        /\ at \in { "once", "twice" } =>
              output = Translate(SequentialOutput(Translate(img, -img.Rect.Min.X, -img.Rect.Min.Y)),
                                 img.Rect.Min.X, img.Rect.Min.Y)

====
